---------------------------- MODULE Spec2Model ----------------------------
(***************************************************************************)
(* State-machine model of packages/vitest/src/node/pools/vmForks.ts:       *)
(* the vmForks process pool (createVmForksPool), its dispatch call         *)
(* (runTests = runWithFiles('run')), the per-task runFiles continuation    *)
(* and the per-task child-process channel.                                 *)
(***************************************************************************)
EXTENDS Integers, Sequences, FiniteSets

(***************************************************************************)
(* Bounds of the model.                                                    *)
(***************************************************************************)
MaxCalls == 2
MaxTasks == 2
MaxRunCpus == 3
MaxCpus == 9
MaxOverride == 2
MaxMemory == 8
MaxPatternLen == 3

Calls == 1..MaxCalls
Tasks == 1..MaxTasks
Projects == {"p1", "p2"}
CancelReasons == {"keyboard-input", "test-failure"}

VARIABLES
    config,             \* ctx.config as read by createVmForksPool
    options,            \* TinypoolOptions handed to new Tinypool(options)
    isCancelling,       \* ctx.isCancelling
    onCancelListeners,  \* callbacks registered through ctx.onCancel
    processTimeoutCauses, \* ctx.state: causes added by addProcessTimeoutCause
    cancelledFiles,     \* ctx.state: files marked by cancelFiles
    id,                 \* `let id = 0` of runWithFiles
    snapshots,          \* the objects built by getConfig, in creation order
    call,               \* the dispatch calls (invocations of runTests)
    task,               \* the tasks (invocations of runFiles)
    channel,            \* per task: listeners of the channel's emitter
    inbox,              \* per task: notifications delivered to its worker
    queue,              \* the pool's queue of tasks not yet started
    nTasks,             \* number of runFiles invocations so far
    totalmem,           \* nodeos.totalmem() as seen by getMemoryLimit
    memoryLimit,        \* getWorkerMemoryLimit(config): the configured ceiling
    maxMemoryLimitBeforeRecycle, \* options.maxMemoryLimitBeforeRecycle
    testNamePattern,    \* _config.testNamePattern of a project
    serialized          \* testNamePattern of the object built by getConfig

memoryVars == <<totalmem, memoryLimit, maxMemoryLimitBeforeRecycle>>

serializerVars == <<testNamePattern, serialized>>

vars == <<config, options, isCancelling, onCancelListeners, processTimeoutCauses,
          cancelledFiles, id, snapshots, call, task, channel, inbox, queue, nTasks,
          totalmem, memoryLimit, maxMemoryLimitBeforeRecycle, testNamePattern,
          serialized>>

(***************************************************************************)
(* Optional values (undefined / null) are sequences of length 0 or 1.      *)
(***************************************************************************)
Undefined == <<>>
Some(v) == <<v>>
Nullish(a, b) == IF a # Undefined THEN a ELSE b
Max(a, b) == IF a >= b THEN a ELSE b

(***************************************************************************)
(* createVmForksPool: worker counts.                                       *)
(***************************************************************************)
threadsCountNoFloor(numCpus, watch) ==
    IF watch THEN Max(numCpus \div 2, 1) ELSE numCpus - 1

threadsCount(numCpus, watch) ==
    IF watch THEN Max(numCpus \div 2, 1) ELSE Max(numCpus - 1, 1)

maxThreads(cfg) ==
    Nullish(cfg.maxForks,
            Nullish(cfg.maxWorkers, Some(threadsCount(cfg.numCpus, cfg.watch))))[1]

minThreads(cfg) ==
    Nullish(cfg.maxForks,
            Nullish(cfg.minWorkers, Some(threadsCount(cfg.numCpus, cfg.watch))))[1]

concurrentTasksPerWorkerTwo == 1 + 1

concurrentTasksPerWorker == 1

PoolOptionsSingleForkOnly(cfg) ==
    IF cfg.singleFork
    THEN [maxThreads |-> 1, minThreads |-> 1, constructed |-> TRUE]
    ELSE [maxThreads |-> maxThreads(cfg), minThreads |-> minThreads(cfg),
          constructed |-> TRUE]

PoolOptions(cfg) ==
    IF cfg.singleFork \/ ~cfg.fileParallelism
    THEN [maxThreads |-> 1, minThreads |-> 1, constructed |-> TRUE]
    ELSE [maxThreads |-> maxThreads(cfg), minThreads |-> minThreads(cfg),
          constructed |-> TRUE]

NoOptions == [maxThreads |-> 0, minThreads |-> 0, constructed |-> FALSE]

Optional(S) == {Undefined} \cup {Some(v) : v \in S}

AllConfigs ==
    [numCpus : 1..MaxCpus, watch : BOOLEAN,
     maxForks : Optional(1..MaxOverride), maxWorkers : Optional(1..MaxOverride),
     minWorkers : Optional(1..MaxOverride),
     singleFork : BOOLEAN, fileParallelism : BOOLEAN]

DefaultConfig(u, w) ==
    [numCpus |-> u, watch |-> w, maxForks |-> Undefined, maxWorkers |-> Undefined,
     minWorkers |-> Undefined, singleFork |-> FALSE, fileParallelism |-> TRUE]

RunConfigs == {DefaultConfig(MaxRunCpus, w) : w \in BOOLEAN}

(***************************************************************************)
(* Errors: a rejection reason is a value that may or may not be an Error;  *)
(* its message is a sequence of text fragments.  A regular expression      *)
(* /text/.test(message) searches the message for the text.                 *)
(***************************************************************************)
FailedToTerminate == "Failed to terminate worker"
TaskCancelled == "The task has been cancelled"

RegexTest(pattern, message) == \E i \in 1..Len(message) : message[i] = pattern

CancelError == [isError |-> TRUE, message |-> <<TaskCancelled>>]

ErrorValues ==
    { [isError |-> TRUE, message |-> <<FailedToTerminate>>],
      CancelError,
      [isError |-> TRUE, message |-> <<FailedToTerminate, TaskCancelled>>],
      [isError |-> TRUE, message |-> <<"boom">>],
      [isError |-> FALSE, message |-> <<TaskCancelled>>] }

NoError == [isError |-> FALSE, message |-> <<>>]

(***************************************************************************)
(* runFiles, catch block: what is done with a rejection of pool.run.       *)
(***************************************************************************)
ClassifyCancelFirst(error, cancelling) ==
    IF cancelling /\ error.isError /\ RegexTest(TaskCancelled, error.message)
    THEN "cancelled"
    ELSE IF error.isError /\ RegexTest(FailedToTerminate, error.message)
         THEN "timeout"
         ELSE "throw"

ClassifyIgnoreCancelling(error, cancelling) ==
    IF error.isError /\ RegexTest(FailedToTerminate, error.message)
    THEN "timeout"
    ELSE IF error.isError /\ RegexTest(TaskCancelled, error.message)
         THEN "cancelled"
         ELSE "throw"

ClassifyAnyWhileCancelling(error, cancelling) ==
    IF error.isError /\ RegexTest(FailedToTerminate, error.message)
    THEN "timeout"
    ELSE IF cancelling THEN "cancelled" ELSE "throw"

Classify(error, cancelling) ==
    IF error.isError /\ RegexTest(FailedToTerminate, error.message)
    THEN "timeout"
    ELSE IF cancelling /\ error.isError /\ RegexTest(TaskCancelled, error.message)
         THEN "cancelled"
         ELSE "throw"

(***************************************************************************)
(* createChildProcessChannel: the emitter and its cleanup.                 *)
(***************************************************************************)
NoChannel == [message |-> 0, response |-> 0, cleanups |-> 0]

cleanupMessageOnly(ch) ==
    [message |-> 0, response |-> ch.response, cleanups |-> ch.cleanups + 1]

cleanup(ch) == [message |-> 0, response |-> 0, cleanups |-> ch.cleanups + 1]

NoTask ==
    [st |-> "none", call |-> 0, file |-> 0, project |-> "", workerId |-> 0,
     config |-> 0,
     worker |-> 0, started |-> FALSE, rejected |-> FALSE, error |-> NoError, result |-> "pending",
     cancellingAtCatch |-> FALSE]

NoConfigs == [p \in Projects |-> 0]

NoCall ==
    [pc |-> "idle", specs |-> <<>>, first |-> 0, errors |-> <<>>, message |-> "",
     configs |-> NoConfigs, cancelSeen |-> FALSE]

TasksOf(c) ==
    {t \in Tasks : task[t].st # "none" /\ task[t].call = c}

TaskSeq(c) == [i \in 1..Len(call[c].specs) |-> call[c].first + i - 1]

(***************************************************************************)
(* The controller is single-threaded: the continuation of a settled        *)
(* promise (runFiles after `await pool.run`, runTests after                *)
(* `await Promise.allSettled`) is a microtask, and runs before the         *)
(* event loop handles any other event.                                     *)
(***************************************************************************)
AllSettledFailFast(c) ==
    \/ \A t \in TasksOf(c) : task[t].result # "pending"
    \/ \E t \in TasksOf(c) : task[t].result = "rejected"

AllSettled(c) == \A t \in TasksOf(c) : task[t].result # "pending"

MicrotasksPending ==
    \/ \E t \in Tasks : task[t].st = "settled"
    \/ \E c \in Calls : call[c].pc = "awaiting" /\ AllSettled(c)

(***************************************************************************)
(* getMemoryLimit.  Byte amounts are exact: they are held in units of      *)
(* 1/200 byte, so that a percentage of half of the total memory is an      *)
(* integer.  A numeric limit is held in hundredths (0.5 is 50, 2048 bytes  *)
(* is 204800); a string limit is a number followed by a unit, "%" or none. *)
(* totalmem is Undefined where the platform does not report it.            *)
(***************************************************************************)
Null == <<>>

Bytes(b) == 200 * b

NumberLimit(h) == [type |-> "number", hundredths |-> h, unit |-> ""]

StringLimit(n, unit) == [type |-> "string", hundredths |-> 100 * n, unit |-> unit]

Percentages == {1, 10, 25, 50, 100}

ByteCounts == {2, 3, 2048}

MemoryLimits ==
    {NumberLimit(h) : h \in Percentages}
    \cup {NumberLimit(100 * b) : b \in ByteCounts}
    \cup {StringLimit(n, "%") : n \in Percentages}
    \cup {StringLimit(b, "") : b \in ByteCounts}

NoLimit == NumberLimit(0)

Unresolved == [resolved |-> FALSE, bytes |-> Undefined]

\* stringToBytes(input, percentageReference): a percentage string or a
\* number of at most 1 is a fraction of the reference (no reference: no
\* ceiling); a larger number is a byte count, used as it is.
stringToBytes(input, percentageReference) ==
    LET value == IF input.type = "string" /\ input.unit = "%"
                 THEN input.hundredths \div 100
                 ELSE input.hundredths
    IN  IF value <= 100
        THEN IF percentageReference = Undefined THEN Null
             ELSE Some((value * percentageReference[1]) \div 100)
        ELSE Some(2 * value)

getMemoryLimitFullBaseline(memory, limit, watch) ==
    IF memory # Undefined
    THEN stringToBytes(limit, Some(Bytes(memory[1])))
    ELSE IF \/ limit.type = "number" /\ limit.hundredths > 100
            \/ limit.type = "string" /\ limit.unit # "%"
         THEN stringToBytes(limit, Undefined)
         ELSE Null

getMemoryLimit(memory, limit, watch) ==
    IF memory # Undefined
    THEN stringToBytes(limit,
                       Some(IF watch THEN Bytes(memory[1]) \div 2
                            ELSE Bytes(memory[1])))
    ELSE IF \/ limit.type = "number" /\ limit.hundredths > 100
            \/ limit.type = "string" /\ limit.unit # "%"
         THEN stringToBytes(limit, Undefined)
         ELSE Null

\* `getMemoryLimit(ctx.config) || undefined`
OrUndefined(v) == IF v = Null \/ v = Some(0) THEN Undefined ELSE v

MemoryIdle ==
    /\ totalmem = Undefined
    /\ memoryLimit = NoLimit
    /\ maxMemoryLimitBeforeRecycle = Unresolved

(***************************************************************************)
(* stringifyRegex and the testNamePattern of getConfig.  A string is a     *)
(* sequence of characters; a regular expression has a source and flags,    *)
(* and its toString() is "/" source "/" flags.                             *)
(***************************************************************************)
StringValue(chars) == [type |-> "string", chars |-> chars, flags |-> <<>>]

RegExpValue(source, flags) == [type |-> "regexp", chars |-> source, flags |-> flags]

UndefinedValue == [type |-> "undefined", chars |-> <<>>, flags |-> <<>>]

Marker == <<"$", "$", "v", "i", "t", "e", "s", "t", ":">>

RegExpToString(re) == <<"/">> \o re.chars \o <<"/">> \o re.flags

stringifyRegexSourceOnly(input) ==
    IF input.type = "string" THEN input
    ELSE StringValue(Marker \o input.chars)

stringifyRegex(input) ==
    IF input.type = "string" THEN input
    ELSE StringValue(Marker \o RegExpToString(input))

\* JavaScript truthiness: undefined and the empty string are falsy.
Truthy(v) == v.type = "regexp" \/ (v.type = "string" /\ v.chars # <<>>)

SerializedTestNamePattern(pattern) ==
    IF Truthy(pattern) THEN stringifyRegex(pattern) ELSE UndefinedValue

StringsUpTo(alphabet, n) == UNION {[1..k -> alphabet] : k \in 0..n}

StringChars == {"a", "/"}

SourceChars == {"a", "."}

FlagSets == {<<>>, <<"g">>, <<"i">>, <<"g", "i">>}

TestNamePatterns ==
    {UndefinedValue}
    \cup {StringValue(cs) : cs \in StringsUpTo(StringChars, MaxPatternLen)}
    \cup {RegExpValue(src, fl) :
            src \in StringsUpTo(SourceChars, MaxPatternLen) \ {<<>>},
            fl \in FlagSets}

NotSerialized == [done |-> FALSE, value |-> UndefinedValue]

SerializerIdle ==
    /\ testNamePattern = UndefinedValue
    /\ serialized = NotSerialized

(***************************************************************************)
(* The initial state: the pool has been constructed, nothing has run.      *)
(***************************************************************************)
InitRun ==
    /\ isCancelling = FALSE
    /\ onCancelListeners = {}
    /\ processTimeoutCauses = {}
    /\ cancelledFiles = {}
    /\ id = 0
    /\ snapshots = <<>>
    /\ call = [c \in Calls |-> NoCall]
    /\ task = [t \in Tasks |-> NoTask]
    /\ channel = [t \in Tasks |-> NoChannel]
    /\ inbox = [t \in Tasks |-> <<>>]
    /\ queue = <<>>
    /\ nTasks = 0

Init ==
    /\ config \in RunConfigs
    /\ options = PoolOptions(config)
    /\ InitRun
    /\ MemoryIdle
    /\ SerializerIdle

(***************************************************************************)
(* runTests, up to `await groupFilesByEnv(specs)`: the cancellation        *)
(* listener of the call is registered, then the call suspends.             *)
(***************************************************************************)
RECURSIVE PendingUnits(_)
PendingUnits(cs) ==
    IF cs = {} THEN 0
    ELSE LET c == CHOOSE c \in cs : TRUE
         IN  (IF call[c].pc = "grouping" THEN Len(call[c].specs) ELSE 0)
             + PendingUnits(cs \ {c})

Room == MaxTasks - nTasks - PendingUnits(Calls)

ProjectOrder(p) == IF p = "p1" THEN 1 ELSE 2

SpecLists(room) ==
    {s \in UNION {[1..n -> Projects] : n \in 1..room} :
        /\ Len(s) > 0 => s[1] = "p1"
        /\ \A i \in 1..(Len(s) - 1) : ProjectOrder(s[i]) <= ProjectOrder(s[i + 1])}

CallListenerMissing(c) == {}

CallListener(c) == {[kind |-> "pool", of |-> c]}

StartCall(c, specs) ==
    /\ ~MicrotasksPending
    /\ call[c].pc = "idle"
    /\ \A d \in Calls : d < c => call[d].pc # "idle"
    /\ onCancelListeners' = onCancelListeners \cup CallListener(c)
    /\ call' = [call EXCEPT ![c] = [@ EXCEPT !.pc = "grouping", !.specs = specs]]
    /\ UNCHANGED <<memoryVars, serializerVars, config, snapshots, options, isCancelling, processTimeoutCauses,
                   cancelledFiles, id, task, channel, inbox, queue, nTasks>>

(***************************************************************************)
(* createChildProcessChannel: birpc registers its listener on the          *)
(* 'response' event, and the bridge registers rpc.onCancel on the context. *)
(***************************************************************************)
NewChannel == [message |-> 0, response |-> 1, cleanups |-> 0]

BridgeListenersMissing(ts) == {}

BridgeListeners(ts) == {[kind |-> "bridge", of |-> t] : t \in ts}

(***************************************************************************)
(* runTests after the grouping: one runFiles per unit, each running        *)
(* synchronously up to `await pool.run(...)`.                              *)
(***************************************************************************)
(***************************************************************************)
(* `let id = 0` belongs to the closure of runWithFiles, which is called    *)
(* once per pool: every dispatch call reads and advances the same counter. *)
(* runFiles takes `++id` once per task.                                    *)
(***************************************************************************)
IdCounterPerCall(c) == 0

IdCounter(c) == id

NextWorkerIdNotStored(counter, i) == counter + 1

NextWorkerId(counter, i) == counter + i

(***************************************************************************)
(* getConfig: `configs` is the Map of the dispatch call, from project to   *)
(* the object built for it (0: no entry).  An object is identified by its  *)
(* position in `snapshots`, where it is stored with the call and project   *)
(* whose getSerializableConfig() produced it.                              *)
(***************************************************************************)
getConfigUncached(configs, project, heap, c) ==
    LET ref == Len(heap) + 1
    IN  [configs |-> [configs EXCEPT ![project] = ref],
         heap |-> Append(heap, [call |-> c, project |-> project]),
         config |-> ref]

getConfig(configs, project, heap, c) ==
    IF configs[project] # 0
    THEN [configs |-> configs, heap |-> heap, config |-> configs[project]]
    ELSE LET ref == Len(heap) + 1
         IN  [configs |-> [configs EXCEPT ![project] = ref],
              heap |-> Append(heap, [call |-> c, project |-> project]),
              config |-> ref]

\* promises.map(... getConfig(project) ...): one getConfig per file, in order.
RECURSIVE MapGetConfig(_, _, _, _)
MapGetConfig(specs, c, i, acc) ==
    IF i > Len(specs) THEN acc
    ELSE LET r == getConfig(acc.configs, specs[i], acc.heap, c)
         IN  MapGetConfig(specs, c, i + 1,
                          [configs |-> r.configs, heap |-> r.heap,
                           out |-> Append(acc.out, r.config)])

Submit(c) ==
    LET n == Len(call[c].specs)
        new == (nTasks + 1)..(nTasks + n)
        got == MapGetConfig(call[c].specs, c, 1,
                            [configs |-> call[c].configs, heap |-> snapshots,
                             out |-> <<>>])
    IN  /\ ~MicrotasksPending
        /\ call[c].pc = "grouping"
        /\ task' = [t \in Tasks |->
                      IF t \in new
                      THEN [NoTask EXCEPT !.st = "queued", !.call = c,
                                          !.file = t - nTasks,
                                          !.project = call[c].specs[t - nTasks],
                                          !.config = got.out[t - nTasks],
                                          !.workerId =
                                            NextWorkerId(IdCounter(c), t - nTasks)]
                      ELSE task[t]]
        /\ channel' = [t \in Tasks |-> IF t \in new THEN NewChannel ELSE channel[t]]
        /\ onCancelListeners' = onCancelListeners \cup BridgeListeners(new)
        /\ id' = NextWorkerId(IdCounter(c), n)
        /\ queue' = queue \o [i \in 1..n |-> nTasks + i]
        /\ nTasks' = nTasks + n
        /\ call' = [call EXCEPT ![c] = [@ EXCEPT !.pc = "awaiting", !.first = nTasks + 1,
                                                  !.configs = got.configs]]
        /\ snapshots' = got.heap
        /\ UNCHANGED <<memoryVars, serializerVars, config, options, isCancelling,
                       processTimeoutCauses, cancelledFiles, inbox>>

(***************************************************************************)
(* The pool: a queued task starts on a worker that has capacity; the pool  *)
(* subscribes to the task's channel (channel.onMessage).                   *)
(***************************************************************************)
Workers == 1..options.maxThreads

Load(w) == Cardinality({t \in Tasks : task[t].st = "running" /\ task[t].worker = w})

FreeWorkers == {w \in Workers : Load(w) < concurrentTasksPerWorker}

PoolStart(t) ==
    /\ ~MicrotasksPending
    /\ queue # <<>>
    /\ t = Head(queue)
    /\ FreeWorkers # {}
    /\ LET w == CHOOSE w \in FreeWorkers : \A v \in FreeWorkers : w <= v
       IN  task' = [task EXCEPT ![t] = [@ EXCEPT !.st = "running", !.worker = w,
                                                 !.started = TRUE]]
    /\ channel' = [channel EXCEPT ![t] = [@ EXCEPT !.message = @ + 1]]
    /\ queue' = Tail(queue)
    /\ UNCHANGED <<memoryVars, serializerVars, config, snapshots, options, isCancelling, onCancelListeners,
                   processTimeoutCauses, cancelledFiles, id, call, inbox, nTasks>>

(***************************************************************************)
(* The pool: pool.run of a running task settles.                           *)
(***************************************************************************)
PoolResolve(t) ==
    /\ ~MicrotasksPending
    /\ task[t].st = "running"
    /\ task' = [task EXCEPT ![t] = [@ EXCEPT !.st = "settled", !.worker = 0]]
    /\ inbox' = [inbox EXCEPT ![t] = <<>>]
    /\ UNCHANGED <<memoryVars, serializerVars, config, snapshots, options, isCancelling, onCancelListeners,
                   processTimeoutCauses, cancelledFiles, id, call, channel,
                   queue, nTasks>>

PoolReject(t, error) ==
    /\ ~MicrotasksPending
    /\ task[t].st = "running"
    /\ task' = [task EXCEPT ![t] = [@ EXCEPT !.st = "settled", !.worker = 0,
                                             !.rejected = TRUE, !.error = error]]
    /\ inbox' = [inbox EXCEPT ![t] = <<>>]
    /\ UNCHANGED <<memoryVars, serializerVars, config, snapshots, options, isCancelling, onCancelListeners,
                   processTimeoutCauses, cancelledFiles, id, call, channel,
                   queue, nTasks>>

(***************************************************************************)
(* runFiles after `await pool.run(...)`: catch and finally.                *)
(***************************************************************************)
FinallySkippedOnThrow(kind, ch) == IF kind = "throw" THEN ch ELSE cleanup(ch)

Finally(kind, ch) == cleanup(ch)

TimeoutCause(files) == <<"Failed to terminate worker while running", files>>

RunFilesSettle(t) ==
    LET kind == IF task[t].rejected THEN Classify(task[t].error, isCancelling)
                ELSE "ok"
        files == <<task[t].file>>
    IN  /\ task[t].st = "settled"
        /\ processTimeoutCauses' =
             IF kind = "timeout"
             THEN processTimeoutCauses \cup {TimeoutCause(files)}
             ELSE processTimeoutCauses
        /\ cancelledFiles' =
             IF kind = "cancelled"
             THEN cancelledFiles \cup {[files |-> files, project |-> task[t].project]}
             ELSE cancelledFiles
        /\ task' = [task EXCEPT ![t] =
                      [@ EXCEPT !.st = "done",
                                !.result = IF kind = "throw" THEN "rejected"
                                           ELSE "fulfilled",
                                !.cancellingAtCatch = task[t].rejected /\ isCancelling]]
        /\ channel' = [channel EXCEPT ![t] = Finally(kind, @)]
        /\ UNCHANGED <<memoryVars, serializerVars, config, snapshots, options, isCancelling, onCancelListeners, id, call,
                       inbox, queue, nTasks>>

(***************************************************************************)
(* runTests after `await Promise.allSettled(...)`.                         *)
(***************************************************************************)
IsRejected(t) == task[t].result = "rejected"

CollectErrorsFirstOnly(c) ==
    LET all == SelectSeq(TaskSeq(c), IsRejected)
    IN  IF all = <<>> THEN <<>> ELSE <<all[1]>>

CollectErrors(c) == SelectSeq(TaskSeq(c), IsRejected)

AggregateMessage ==
    "Errors occurred while running tests. For more information, see serialized error."

CallFinish(c) ==
    /\ call[c].pc = "awaiting"
    /\ AllSettled(c)
    /\ LET errors == CollectErrors(c)
       IN  call' = [call EXCEPT ![c] =
                      [@ EXCEPT !.pc = IF Len(errors) > 0 THEN "rejected"
                                       ELSE "resolved",
                                !.errors = errors,
                                !.message = IF Len(errors) > 0 THEN AggregateMessage
                                            ELSE ""]]
    /\ UNCHANGED <<memoryVars, serializerVars, config, snapshots, options, isCancelling, onCancelListeners,
                   processTimeoutCauses, cancelledFiles, id, task, channel, inbox,
                   queue, nTasks>>

(***************************************************************************)
(* The external cancellation signal: the context sets isCancelling and     *)
(* calls every registered callback with the reason.  A call's callback     *)
(* runs pool.cancelPendingTasks(); a bridge's callback runs                *)
(* rpc.onCancel(reason), which emits on the 'message' event of its         *)
(* channel.                                                                *)
(***************************************************************************)
QueuedTasks == {queue[i] : i \in 1..Len(queue)}

HasPoolListener == \E l \in onCancelListeners : l.kind = "pool"

HasBridge(t) == [kind |-> "bridge", of |-> t] \in onCancelListeners

Cancel(reason) ==
    /\ ~MicrotasksPending
    /\ ~isCancelling
    /\ isCancelling' = TRUE
    /\ task' = [t \in Tasks |->
                  IF HasPoolListener /\ t \in QueuedTasks
                  THEN [task[t] EXCEPT !.st = "settled", !.rejected = TRUE,
                                       !.error = CancelError]
                  ELSE task[t]]
    /\ queue' = IF HasPoolListener THEN <<>> ELSE queue
    /\ inbox' = [t \in Tasks |->
                   IF HasBridge(t) /\ channel[t].message > 0
                   THEN Append(inbox[t], reason)
                   ELSE inbox[t]]
    /\ call' = [c \in Calls |->
                  [call[c] EXCEPT !.cancelSeen = call[c].pc \in {"grouping", "awaiting"}]]
    /\ UNCHANGED <<memoryVars, serializerVars, config, snapshots, options, onCancelListeners, processTimeoutCauses,
                   cancelledFiles, id, channel, nTasks>>

Next ==
    \/ \E c \in Calls, specs \in SpecLists(Room) : StartCall(c, specs)
    \/ \E c \in Calls : Submit(c)
    \/ \E t \in Tasks : PoolStart(t)
    \/ \E t \in Tasks : PoolResolve(t)
    \/ \E t \in Tasks, e \in ErrorValues : PoolReject(t, e)
    \/ \E t \in Tasks : RunFilesSettle(t)
    \/ \E c \in Calls : CallFinish(c)
    \/ \E r \in CancelReasons : Cancel(r)

Spec == Init /\ [][Next]_vars

(***************************************************************************)
(* Pool construction on its own: every configuration, then                 *)
(* createVmForksPool.                                                      *)
(***************************************************************************)
SizingInit ==
    /\ config \in AllConfigs
    /\ options = NoOptions
    /\ InitRun
    /\ MemoryIdle
    /\ SerializerIdle

Construct ==
    /\ ~options.constructed
    /\ options' = PoolOptions(config)
    /\ UNCHANGED <<memoryVars, serializerVars, config, snapshots, isCancelling, onCancelListeners, processTimeoutCauses,
                   cancelledFiles, id, call, task, channel, inbox, queue, nTasks>>

SizingNext == Construct

SizingSpec == SizingInit /\ [][SizingNext]_vars

(***************************************************************************)
(* getMemoryLimit on its own: every total memory, watch flag and limit,    *)
(* then line 94 of the options.                                            *)
(***************************************************************************)
MemoryInit ==
    /\ config \in {DefaultConfig(1, w) : w \in BOOLEAN}
    /\ options = NoOptions
    /\ InitRun
    /\ SerializerIdle
    /\ totalmem \in Optional(1..MaxMemory)
    /\ memoryLimit \in MemoryLimits
    /\ maxMemoryLimitBeforeRecycle = Unresolved

ResolveMemoryLimit ==
    /\ ~maxMemoryLimitBeforeRecycle.resolved
    /\ maxMemoryLimitBeforeRecycle' =
         [resolved |-> TRUE,
          bytes |-> OrUndefined(getMemoryLimit(totalmem, memoryLimit, config.watch))]
    /\ UNCHANGED <<serializerVars, totalmem, memoryLimit, config, snapshots, options,
                   isCancelling, onCancelListeners, processTimeoutCauses,
                   cancelledFiles, id, call, task, channel, inbox, queue, nTasks>>

MemoryNext == ResolveMemoryLimit

MemorySpec == MemoryInit /\ [][MemoryNext]_vars

(***************************************************************************)
(* The testNamePattern entry of getConfig on its own: every pattern, then  *)
(* lines 154-159.                                                          *)
(***************************************************************************)
SerializerInit ==
    /\ config = DefaultConfig(1, FALSE)
    /\ options = NoOptions
    /\ InitRun
    /\ MemoryIdle
    /\ testNamePattern \in TestNamePatterns
    /\ serialized = NotSerialized

SerializeTestNamePattern ==
    /\ ~serialized.done
    /\ serialized' = [done |-> TRUE, value |-> SerializedTestNamePattern(testNamePattern)]
    /\ UNCHANGED <<memoryVars, testNamePattern, config, snapshots, options,
                   isCancelling, onCancelListeners, processTimeoutCauses,
                   cancelledFiles, id, call, task, channel, inbox, queue, nTasks>>

SerializerNext == SerializeTestNamePattern

SerializerSpec == SerializerInit /\ [][SerializerNext]_vars

(***************************************************************************)
(* Notions the properties below are stated with.                           *)
(***************************************************************************)
MatchesTimeout(e) == e.isError /\ RegexTest(FailedToTerminate, e.message)

MatchesCancelled(e) == e.isError /\ RegexTest(TaskCancelled, e.message)

\* A rejection that is neither a termination timeout nor a cancellation
\* rejection classified while a cancellation was active.
Genuine(t) ==
    /\ task[t].rejected
    /\ ~MatchesTimeout(task[t].error)
    /\ ~(task[t].cancellingAtCatch /\ MatchesCancelled(task[t].error))

Finished(c) == call[c].pc \in {"resolved", "rejected"}

InAggregate(t) ==
    \E i \in 1..Len(call[task[t].call].errors) : call[task[t].call].errors[i] = t

MarkedCancelled(t) ==
    [files |-> <<task[t].file>>, project |-> task[t].project] \in cancelledFiles

CancelFires == ~isCancelling /\ isCancelling'

(***************************************************************************)
(* C1: a dispatch call never fails fast: it settles only after every one   *)
(* of its tasks has settled, and when exactly one task rejects with a      *)
(* genuine error the call rejects, after the others have settled, with an  *)
(* aggregate of exactly one error.                                         *)
(***************************************************************************)
C1_NeverFailFast ==
    \A c \in Calls :
        Finished(c) =>
            /\ Cardinality(TasksOf(c)) = Len(call[c].specs)
            /\ \A t \in TasksOf(c) : task[t].st = "done"
            /\ Cardinality({t \in TasksOf(c) : Genuine(t)}) = 1
                 => call[c].pc = "rejected" /\ Len(call[c].errors) = 1

C1_Witness ==
    \E c \in Calls :
        /\ call[c].pc = "rejected"
        /\ Cardinality(TasksOf(c)) = 2
        /\ Cardinality({t \in TasksOf(c) : Genuine(t)}) = 1
        /\ \E t \in TasksOf(c) : ~task[t].rejected

(***************************************************************************)
(* C2: a dispatch call resolves with no value exactly when none of its     *)
(* task outcomes is a genuine error, and otherwise rejects with one        *)
(* aggregate carrying the fixed message and exactly the genuine errors of  *)
(* the call, each once, in task order.                                     *)
(***************************************************************************)
C2_ResolveOrAggregate ==
    \A c \in Calls :
        Finished(c) =>
            /\ call[c].errors = SelectSeq(TaskSeq(c), Genuine)
            /\ call[c].pc = "resolved" <=> call[c].errors = <<>>
            /\ call[c].message =
                 (IF call[c].pc = "rejected" THEN AggregateMessage ELSE "")

C2_Witness ==
    \E c \in Calls :
        /\ call[c].pc = "rejected"
        /\ Len(call[c].errors) = 2
        /\ call[c].message = AggregateMessage

(***************************************************************************)
(* C3: a rejection whose error matches 'Failed to terminate worker' is     *)
(* never part of the aggregate, whether or not a cancellation is active;   *)
(* it records a process-timeout cause naming the task's files.             *)
(***************************************************************************)
C3_TimeoutNeverAggregated ==
    \A t \in Tasks :
        (task[t].st = "done" /\ task[t].rejected /\ MatchesTimeout(task[t].error))
            => /\ task[t].result = "fulfilled"
               /\ TimeoutCause(<<task[t].file>>) \in processTimeoutCauses
               /\ ~InAggregate(t)

C3_Witness ==
    \E t \in Tasks :
        /\ task[t].st = "done" /\ task[t].rejected
        /\ MatchesTimeout(task[t].error) /\ MatchesCancelled(task[t].error)
        /\ task[t].cancellingAtCatch
        /\ call[task[t].call].pc = "rejected"

(***************************************************************************)
(* C4 as claimed: every rejection whose error matches 'The task has been   *)
(* cancelled' is excluded and marks its files cancelled if a cancellation  *)
(* is active when it is classified, and is retained otherwise.             *)
(***************************************************************************)
C4_Original ==
    \A t \in Tasks :
        (task[t].st = "done" /\ task[t].rejected /\ MatchesCancelled(task[t].error))
            => IF task[t].cancellingAtCatch
               THEN task[t].result = "fulfilled" /\ MarkedCancelled(t)
               ELSE task[t].result = "rejected"

(***************************************************************************)
(* C4 amended: a rejection whose error matches 'The task has been          *)
(* cancelled' and does not match 'Failed to terminate worker' is excluded  *)
(* from the aggregate and marks its files cancelled if and only if a       *)
(* cancellation is active when it is classified; with no active            *)
(* cancellation it is retained, and files are marked cancelled only by     *)
(* rejections classified while a cancellation was active.                  *)
(***************************************************************************)
C4_CancelledIffCancelling ==
    /\ \A t \in Tasks :
         (/\ task[t].st = "done" /\ task[t].rejected
          /\ MatchesCancelled(task[t].error) /\ ~MatchesTimeout(task[t].error))
            => IF task[t].cancellingAtCatch
               THEN /\ task[t].result = "fulfilled"
                    /\ MarkedCancelled(t)
                    /\ ~InAggregate(t)
               ELSE /\ task[t].result = "rejected"
                    /\ Finished(task[t].call) => InAggregate(t)
    /\ \A m \in cancelledFiles :
         \E t \in Tasks :
            /\ task[t].st = "done" /\ m.files = <<task[t].file>>
            /\ m.project = task[t].project
            /\ task[t].cancellingAtCatch
            /\ MatchesCancelled(task[t].error) /\ ~MatchesTimeout(task[t].error)

C4_Witness ==
    \E t, u \in Tasks :
        /\ task[t].st = "done" /\ task[u].st = "done"
        /\ task[t].error = CancelError /\ task[u].error = CancelError
        /\ task[t].started /\ task[u].started
        /\ task[t].cancellingAtCatch /\ ~task[u].cancellingAtCatch
        /\ MarkedCancelled(t) /\ task[u].result = "rejected"

(***************************************************************************)
(* C5: the channel of a task is released on every exit path: cleanup runs  *)
(* exactly once, after pool.run has settled, whatever the outcome, and     *)
(* leaves the task's emitter without listeners.                            *)
(***************************************************************************)
C5_ChannelReleased ==
    \A t \in Tasks :
        /\ task[t].st \in {"queued", "running", "settled"}
             => channel[t].cleanups = 0 /\ channel[t].response = 1
        /\ task[t].st = "running" => channel[t].message = 1
        /\ task[t].st = "done"
             => /\ channel[t].cleanups = 1
                /\ channel[t].message = 0
                /\ channel[t].response = 0

C5_Witness ==
    \E t, u \in Tasks :
        /\ task[t].st = "done" /\ task[t].started /\ task[t].result = "rejected"
        /\ task[u].st = "done" /\ ~task[u].started /\ task[u].result = "fulfilled"
        /\ channel[t].cleanups = 1 /\ channel[u].cleanups = 1

ListenersOnBehalf(t) ==
    channel[t].message + channel[t].response + (IF HasBridge(t) THEN 1 ELSE 0)

CallbacksOfCall(c) ==
    Cardinality({l \in onCancelListeners : l.kind = "pool" /\ l.of = c})

(***************************************************************************)
(* C6 as claimed: once tasks have settled and their calls have finished,   *)
(* nothing registered on their behalf is left: neither listeners on their  *)
(* channel emitters, nor the cancellation callbacks registered on the      *)
(* context for their bridges and for their dispatch calls.                 *)
(***************************************************************************)
C6_Original ==
    /\ \A t \in Tasks : task[t].st = "done" => ListenersOnBehalf(t) = 0
    /\ \A c \in Calls : Finished(c) => CallbacksOfCall(c) = 0

RECURSIVE EmitterListeners(_)
EmitterListeners(ts) ==
    IF ts = {} THEN 0
    ELSE LET t == CHOOSE t \in ts : TRUE
         IN  channel[t].message + channel[t].response + EmitterListeners(ts \ {t})

SettledTasks == {t \in Tasks : task[t].st = "done"}

SettlementStep ==
    \/ \E t \in Tasks : task[t].st = "settled" /\ task'[t].st = "done"
    \/ \E c \in Calls : call[c].pc = "awaiting" /\ call'[c].pc # "awaiting"

(***************************************************************************)
(* C6 amended: no channel listener outlives its task: however many tasks   *)
(* have settled, the listeners on their channel emitters number zero.  The *)
(* cancellation callbacks registered on the context (one per bridge, one   *)
(* per dispatch call) are not released when a task or a call settles.      *)
(***************************************************************************)
C6_ChannelListenersReleased ==
    /\ [](EmitterListeners(SettledTasks) = 0)
    /\ [][SettlementStep => onCancelListeners' = onCancelListeners]_vars

C6_Witness ==
    /\ Cardinality(SettledTasks) = MaxTasks
    /\ \A c \in Calls : Finished(c)
    /\ EmitterListeners(SettledTasks) = 0
    /\ \A t \in SettledTasks : HasBridge(t)
    /\ \A c \in Calls : CallbacksOfCall(c) = 1

RunningTasks == {t \in Tasks : task[t].st = "running"}

(***************************************************************************)
(* C7: each worker executes at most one task, the tasks executing never    *)
(* number more than the pool's maximum worker count, and the tasks beyond  *)
(* the ceiling wait in the pool's queue.                                   *)
(***************************************************************************)
C7_WorkerCeiling ==
    /\ \A w \in 1..MaxTasks : Load(w) <= 1
    /\ \A t \in RunningTasks : task[t].worker \in 1..options.maxThreads
    /\ Cardinality(RunningTasks) <= options.maxThreads
    /\ \A t \in Tasks : task[t].st = "queued" <=> t \in QueuedTasks

C7_Witness ==
    /\ Cardinality(RunningTasks) = options.maxThreads
    /\ queue # <<>>

Dropped(t) == task[t].st \in {"settled", "done"} /\ ~task[t].started

C8_State ==
    /\ \A c \in Calls :
         /\ call[c].pc # "idle" => CallbacksOfCall(c) = 1
         /\ call[c].pc \in {"idle", "grouping"} => TasksOf(c) = {}
    /\ \A t \in Tasks :
         Dropped(t) =>
            /\ isCancelling
            /\ task[t].rejected /\ task[t].error = CancelError
            /\ task[t].worker = 0
            /\ task[t].st = "done"
                 => /\ task[t].result = "fulfilled"
                    /\ MarkedCancelled(t)
                    /\ ~InAggregate(t)

(***************************************************************************)
(* C8: the cancellation listener of a dispatch call is registered before   *)
(* any of its tasks is submitted; when the cancellation signal fires,      *)
(* every task queued in the pool and not yet started is dropped: it never  *)
(* starts, its rejection is classified as an intentional cancellation (its *)
(* files marked cancelled) and it is not part of the aggregate.            *)
(***************************************************************************)
C8_QueuedTasksDropped ==
    /\ []C8_State
    /\ [][CancelFires => \A t \in Tasks : task[t].st = "queued" => Dropped(t)']_vars
    /\ [][\A t \in Tasks : Dropped(t) => Dropped(t)']_vars

C8_Witness ==
    \E t, u \in Tasks :
        /\ Dropped(t) /\ MarkedCancelled(t)
        /\ task[u].started
        /\ task[t].call = task[u].call
        /\ Finished(task[t].call)

(***************************************************************************)
(* C9: cancellation is broadcast: when the cancellation signal fires,      *)
(* every task in flight at that moment has the onCancel notification,      *)
(* with the reason, delivered to its worker through its own bridge.        *)
(***************************************************************************)
C9_CancelBroadcast ==
    [][CancelFires =>
         \E r \in CancelReasons :
            \A t \in Tasks :
               task[t].st = "running" => inbox[t] = <<>> /\ inbox'[t] = <<r>>]_vars

C9_Witness ==
    \E t, u \in Tasks :
        /\ t # u
        /\ task[t].st = "running" /\ task[u].st = "running"
        /\ isCancelling
        /\ Len(inbox[t]) = 1 /\ inbox[u] = inbox[t]

NoOverrides(cfg) ==
    /\ cfg.maxForks = Undefined /\ cfg.maxWorkers = Undefined
    /\ cfg.minWorkers = Undefined
    /\ ~cfg.singleFork /\ cfg.fileParallelism

ExpectedDefault(u, watch) ==
    IF watch
    THEN (IF u >= 2 THEN CHOOSE q \in 0..u : 2 * q <= u /\ u < 2 * (q + 1) ELSE 1)
    ELSE (IF u >= 2 THEN u - 1 ELSE 1)

(***************************************************************************)
(* C10: with no user overrides, the pool is constructed with minimum and   *)
(* maximum worker count both equal to max(floor(u/2), 1) in watch mode and *)
(* max(u-1, 1) otherwise, u being the available processing units           *)
(* (u=8: 4 and 7; u=1: 1 and 1).                                           *)
(***************************************************************************)
C10_DefaultWorkerCount ==
    (options.constructed /\ NoOverrides(config)) =>
        /\ options.maxThreads = ExpectedDefault(config.numCpus, config.watch)
        /\ options.minThreads = options.maxThreads
        /\ config.numCpus = 8 => options.maxThreads = (IF config.watch THEN 4 ELSE 7)
        /\ config.numCpus = 1 => options.maxThreads = 1

C10_Witness ==
    /\ options.constructed /\ NoOverrides(config)
    /\ config.numCpus = 8 /\ config.watch
    /\ options.maxThreads = 4 /\ options.minThreads = 4

SingleWorkerMode(cfg) == cfg.singleFork \/ ~cfg.fileParallelism

(***************************************************************************)
(* C11: when single-fork mode is set or file parallelism is disabled, the  *)
(* pool is constructed with minimum = maximum worker count = 1, whatever   *)
(* the processing units and the maxForks, maxWorkers, minWorkers overrides.*)
(***************************************************************************)
C11_SingleWorkerMode ==
    (options.constructed /\ SingleWorkerMode(config)) =>
        options.minThreads = 1 /\ options.maxThreads = 1

C11_Witness ==
    /\ options.constructed
    /\ ~config.singleFork /\ ~config.fileParallelism
    /\ config.numCpus = 8
    /\ config.maxForks = Some(2) /\ config.maxWorkers = Some(2)
    /\ config.minWorkers = Some(2)
    /\ options.minThreads = 1 /\ options.maxThreads = 1

(***************************************************************************)
(* C12: outside single-worker mode a supplied maximum (maxForks,            *)
(* else maxWorkers) is the maximum worker count, a supplied minimum is not *)
(* replaced by the computed default, and when a maximum is supplied and no *)
(* minimum is, the minimum worker count equals that maximum.               *)
(***************************************************************************)
C12_SymmetricSizing ==
    (options.constructed /\ ~SingleWorkerMode(config)) =>
        LET maxOverride == Nullish(config.maxForks, config.maxWorkers)
        IN  /\ maxOverride # Undefined => options.maxThreads = maxOverride[1]
            /\ config.minWorkers # Undefined =>
                 options.minThreads = Nullish(config.maxForks, config.minWorkers)[1]
            /\ (maxOverride # Undefined /\ config.minWorkers = Undefined) =>
                 options.minThreads = maxOverride[1]

(***************************************************************************)
(* C19: for every combination of processing units, watch flag and          *)
(* maxForks, maxWorkers, minWorkers overrides, the pool is constructed     *)
(* with minimum worker count <= maximum worker count.                      *)
(***************************************************************************)
C19_MinAtMostMax ==
    options.constructed => options.minThreads <= options.maxThreads

(***************************************************************************)
(* The three effects of the catch block on the step that classifies the    *)
(* rejection of task t.                                                    *)
(***************************************************************************)
ClassifiesRejection(t) ==
    task[t].st = "settled" /\ task[t].rejected /\ task'[t].st = "done"

ErrorRetained(t) == task'[t].result = "rejected"

TimeoutEffect(t) ==
    /\ TimeoutCause(<<task[t].file>>) \in processTimeoutCauses'
    /\ cancelledFiles' = cancelledFiles
    /\ ~ErrorRetained(t)

CancelledEffect(t) ==
    /\ [files |-> <<task[t].file>>, project |-> task[t].project] \in cancelledFiles'
    /\ processTimeoutCauses' = processTimeoutCauses
    /\ ~ErrorRetained(t)

RetainedEffect(t) ==
    /\ ErrorRetained(t)
    /\ processTimeoutCauses' = processTimeoutCauses
    /\ cancelledFiles' = cancelledFiles

(***************************************************************************)
(* C15: every rejected task outcome triggers exactly one of three effects, *)
(* in priority order: (1) the error matches the termination-timeout        *)
(* pattern: a process-timeout cause is recorded, nothing is marked         *)
(* cancelled, the error is not retained; (2) else a cancellation is active *)
(* and the error is a cancelled-task error: the files are marked           *)
(* cancelled, no timeout cause is recorded, the error is not retained;     *)
(* (3) else the error is retained and neither record is made.  A           *)
(* termination-timeout rejection is classified (1) even while a            *)
(* cancellation is active.  At most one of the two records grows and an    *)
(* error is retained only when neither does.                               *)
(***************************************************************************)
C15_ExclusiveEffects ==
    [][\A t \in Tasks : ClassifiesRejection(t) =>
          /\ IF MatchesTimeout(task[t].error)
             THEN TimeoutEffect(t)
             ELSE IF isCancelling /\ MatchesCancelled(task[t].error)
                  THEN CancelledEffect(t)
                  ELSE RetainedEffect(t)
          /\ \/ processTimeoutCauses' = processTimeoutCauses
             \/ cancelledFiles' = cancelledFiles
          /\ ErrorRetained(t) =>
               /\ processTimeoutCauses' = processTimeoutCauses
               /\ cancelledFiles' = cancelledFiles]_vars

C15_Witness ==
    \E t \in Tasks :
        /\ task[t].st = "done" /\ task[t].rejected
        /\ MatchesTimeout(task[t].error) /\ MatchesCancelled(task[t].error)
        /\ task[t].cancellingAtCatch
        /\ task[t].result = "fulfilled"
        /\ TimeoutCause(<<task[t].file>>) \in processTimeoutCauses
        /\ cancelledFiles = {}

Created(t) == task[t].st # "none"

C18_WorkerIdsUniqueIncreasing ==
    \A t, u \in Tasks : (Created(t) /\ Created(u) /\ t < u) =>
        task[t].workerId < task[u].workerId

C18_Witness ==
    \E t, u \in Tasks :
        /\ Created(t) /\ Created(u) /\ t < u
        /\ task[t].call > task[u].call
        /\ call[task[t].call].pc = "awaiting" /\ call[task[u].call].pc = "awaiting"
        /\ task[t].workerId < task[u].workerId

(***************************************************************************)
(* C16: within one dispatch call the serializable configuration of a       *)
(* project is resolved at most once, every task of the call belonging to   *)
(* the same project carries the identical snapshot, and the cache is not   *)
(* reused by another dispatch call: the snapshot a task carries was        *)
(* resolved by the task's own call, for the task's own project.            *)
(***************************************************************************)
C16_ConfigResolvedOncePerCall ==
    /\ \A i, j \in 1..Len(snapshots) : snapshots[i] = snapshots[j] => i = j
    /\ \A t, u \in Tasks :
         (/\ Created(t) /\ Created(u)
          /\ task[t].call = task[u].call /\ task[t].project = task[u].project)
         => task[t].config = task[u].config
    /\ \A t \in Tasks : Created(t) =>
         /\ task[t].config \in 1..Len(snapshots)
         /\ snapshots[task[t].config] =
              [call |-> task[t].call, project |-> task[t].project]
         /\ call[task[t].call].configs[task[t].project] = task[t].config

C16_Witness ==
    \E t, u \in Tasks :
        /\ t # u /\ Created(t) /\ Created(u)
        /\ task[t].call = task[u].call /\ task[t].project = task[u].project
        /\ task[t].config = task[u].config
        /\ Len(snapshots) = 1

(***************************************************************************)
(* C20: once the cancellation signal has fired during a dispatch call, no  *)
(* task of that call that had not yet started begins executing on a worker *)
(* afterwards, including when the signal fires while the files of the call *)
(* are still being grouped by environment.                                 *)
(***************************************************************************)
C20_NoStartAfterCancel ==
    [][\A t \in Tasks :
          (task[t].st = "queued" /\ call[task[t].call].cancelSeen)
          => task'[t].st # "running"]_vars

(***************************************************************************)
(* Notions for the memory ceiling: a limit is a fraction when it is a      *)
(* number of at most 1 or a percentage string, a byte count otherwise.     *)
(***************************************************************************)
IsFraction(limit) ==
    \/ limit.type = "number" /\ limit.hundredths <= 100
    \/ limit.type = "string" /\ limit.unit = "%"

\* The fraction in hundredths: 0.5 and "50%" are both 50.
FractionHundredths(limit) ==
    IF limit.type = "string" THEN limit.hundredths \div 100 ELSE limit.hundredths

\* The byte count of a limit that is not a fraction.
ByteCount(limit) == limit.hundredths \div 100

(***************************************************************************)
(* C13: with total memory M known, a percentage or a ratio <= 1 is         *)
(* multiplied against a baseline that is M/2 in watch mode and M otherwise *)
(* ("50%" with watch off gives M/2, ratio 0.5 with watch on gives M/4); an *)
(* absolute byte count is returned unchanged, whatever M and watch are;    *)
(* with M not determinable a percentage string or a ratio <= 1 resolves to *)
(* no ceiling.                                                             *)
(***************************************************************************)
C13_MemoryCeiling ==
    maxMemoryLimitBeforeRecycle.resolved =>
        LET bytes == maxMemoryLimitBeforeRecycle.bytes
            halves == IF config.watch THEN 2 ELSE 1
        IN  /\ (totalmem # Undefined /\ IsFraction(memoryLimit)) =>
                 /\ bytes # Undefined
                 /\ 100 * halves * bytes[1]
                      = FractionHundredths(memoryLimit) * Bytes(totalmem[1])
            /\ (/\ totalmem # Undefined /\ ~config.watch
                /\ memoryLimit = StringLimit(50, "%")) =>
                 2 * bytes[1] = Bytes(totalmem[1])
            /\ (/\ totalmem # Undefined /\ config.watch
                /\ memoryLimit = NumberLimit(50)) =>
                 4 * bytes[1] = Bytes(totalmem[1])
            /\ ~IsFraction(memoryLimit) => bytes = Some(Bytes(ByteCount(memoryLimit)))
            /\ (totalmem = Undefined /\ IsFraction(memoryLimit)) => bytes = Undefined

C13_Witness ==
    /\ maxMemoryLimitBeforeRecycle.resolved
    /\ config.watch
    /\ totalmem = Some(8)
    /\ memoryLimit = NumberLimit(50)
    /\ maxMemoryLimitBeforeRecycle.bytes = Some(Bytes(2))

(***************************************************************************)
(* The worker's decoding of a serialized pattern: the text after the       *)
(* marker is "/" source "/" flags, split at its first and last "/".        *)
(***************************************************************************)
StartsWith(chars, prefix) ==
    Len(chars) >= Len(prefix) /\ SubSeq(chars, 1, Len(prefix)) = prefix

LastSlash(chars) ==
    CHOOSE i \in 0..Len(chars) :
        /\ i = 0 \/ chars[i] = "/"
        /\ \A j \in (i + 1)..Len(chars) : chars[j] # "/"

Decode(v) ==
    IF v.type = "string" /\ StartsWith(v.chars, Marker)
    THEN LET text == SubSeq(v.chars, Len(Marker) + 1, Len(v.chars))
             last == LastSlash(text)
         IN  IF Len(text) >= 2 /\ text[1] = "/" /\ last > 1
             THEN RegExpValue(SubSeq(text, 2, last - 1),
                              SubSeq(text, last + 1, Len(text)))
             ELSE v
    ELSE v

(***************************************************************************)
(* C14 as claimed: a testNamePattern that is a regular expression is       *)
(* replaced by a string that begins with the marker '$$vitest:' followed   *)
(* by the pattern's textual form, from which the pattern is recoverable,   *)
(* and every testNamePattern that is a plain string is passed unchanged.   *)
(***************************************************************************)
C14_Original ==
    serialized.done =>
        /\ testNamePattern.type = "regexp" =>
             /\ serialized.value = StringValue(Marker \o RegExpToString(testNamePattern))
             /\ Decode(serialized.value) = testNamePattern
        /\ testNamePattern.type = "string" => serialized.value = testNamePattern

(***************************************************************************)
(* C14 amended: a testNamePattern that is a regular expression is replaced *)
(* by a string that begins with the marker '$$vitest:' followed by the     *)
(* pattern's textual form, from which the pattern is recoverable; a        *)
(* non-empty plain string is passed unchanged; the empty string, like a    *)
(* missing pattern, is replaced by undefined.                              *)
(***************************************************************************)
C14_PatternSerialized ==
    serialized.done =>
        /\ testNamePattern.type = "regexp" =>
             /\ serialized.value.type = "string"
             /\ StartsWith(serialized.value.chars, Marker)
             /\ serialized.value = StringValue(Marker \o RegExpToString(testNamePattern))
             /\ Decode(serialized.value) = testNamePattern
        /\ (testNamePattern.type = "string" /\ testNamePattern.chars # <<>>) =>
             serialized.value = testNamePattern
        /\ (testNamePattern.type = "undefined" \/ testNamePattern.chars = <<>>) =>
             serialized.value = UndefinedValue

C14_Witness ==
    /\ serialized.done
    /\ testNamePattern = RegExpValue(<<"a", ".">>, <<"g", "i">>)
    /\ serialized.value = StringValue(Marker \o <<"/", "a", ".", "/", "g", "i">>)
    /\ Decode(serialized.value) = testNamePattern

=============================================================================
